---------------------------- MODULE Spec2Model ----------------------------
(***************************************************************************)
(* The single-column moist energy-balance model with sea ice, model() of   *)
(* src/idealized_model_activity/SCM_MEBM.py, as a state machine.           *)
(*                                                                         *)
(* Numbers.  The program computes in IEEE doubles; here every physical     *)
(* quantity is a fixed-point integer counting hundredths (Unit = 100) of   *)
(* its own unit: 19600 is A = 196 W m^-2.  Products and quotients are       *)
(* rounded to the nearest hundredth (Mul, Quo).  Constants that are exact  *)
(* rationals but no multiple of a hundredth are kept as rationals:         *)
(* dt = 1/dtInv, tau = 1/tauInv, cg = cgNum/cgDen.  A division by +-0.0    *)
(* gives +-inf in numpy; the only one that values on this grid can meet is *)
(* kLf/E at E = 0, and it is modelled by its IEEE result (see OverDenom).  *)
(* The enthalpies 0 < E <= kLf/M (about 0.0019), whose denominator          *)
(* M - kLf/E is zero or negative, lie below one hundredth and are not      *)
(* represented: the runs of the model are those whose callers keep the     *)
(* cells off that singular boundary, where T0 is not finite.  SpecFine     *)
(* below models the temperature update at that boundary, with E in units   *)
(* of 1e-8 and IEEE infinities and NaN.                                    *)
(*                                                                         *)
(* Arrays are functions on 1..n (cells) and 1..nt (substeps); the          *)
(* program's 0-based column i is column i+1 here.                          *)
(***************************************************************************)
EXTENDS Integers, Sequences, FiniteSets, TLC

(***************************************************************************)
(* Bounds of the model.                                                    *)
(***************************************************************************)
MaxN == 2
MaxNt == 3
MaxDur == 2
\* A run is followed while its temperatures stay within +-MaxTemp
\* (hundredths of a degree): beyond it the products of the scheme leave the
\* integers of the model checker.
MaxTemp == 6000

(***************************************************************************)
(* Fixed-point arithmetic.                                                 *)
(***************************************************************************)
Unit == 10 * 10

Abs(a) == IF a < 0 THEN -a ELSE a

\* a/b rounded to the nearest integer (b # 0)
RDiv(a, b) ==
  LET aa == IF b < 0 THEN -a ELSE a
      bb == Abs(b)
      q  == aa \div bb
      r  == aa % bb
  IN IF 2 * r >= bb THEN q + 1 ELSE q

\* the product of two fixed-point numbers; the larger operand goes first
Mul(a, b) == (a \div Unit) * b + RDiv((a % Unit) * b, Unit)

\* the quotient of two fixed-point numbers (b # 0)
Quo(a, b) ==
  LET aa == IF b < 0 THEN -a ELSE a
      bb == Abs(b)
  IN (aa \div bb) * Unit + RDiv((aa % bb) * Unit, bb)

\* a boolean mask as numpy multiplies it: True is 1, False is 0
Mask(b) == IF b THEN 1 ELSE 0

(***************************************************************************)
(* Physical parameters (lines 47-74), in hundredths unless said otherwise. *)
(***************************************************************************)
mld == 60
cday == 86400
cyear == (cday \div Unit) * 36525
cpsw == 3996
rhosw == 1026
cw == RDiv(cpsw * rhosw * mld, cyear \div Unit)
D == 30
A == 19600
B == 180
S1 == 33800
S0 == 42000
S2 == 24000
a0 == 70
a2 == 10
ai == 40
Fb == 0
k == 200
Lf == 950
cgNum == 98
cgDen == 1000
tauInv == 100000
Lv == 2500000
cp10 == 10046
RH == 80
Ps == 100000

(***************************************************************************)
(* saturation_specific_humidity (lines 3-32).  T is in hundredths of a     *)
(* degree Celsius; the result is in 10^-6 kg/kg.                           *)
(***************************************************************************)
es0 == 61078
T0ref == 27316
Rv10 == 4615
ep1000 == 622

\* exp(f/1000)*1000 for 0 <= f < 1000: the series to the fifth order
ExpFrac(f) ==
  LET h5 == 1000 + f \div 5
      h4 == 1000 + RDiv(f * h5, 4000)
      h3 == 1000 + RDiv(f * h4, 3000)
      h2 == 1000 + RDiv(f * h3, 2000)
  IN 1000 + RDiv(f * h2, 1000)

\* v * e^kk, v in thousandths
RECURSIVE ExpInt(_, _)
ExpInt(v, kk) ==
  IF kk = 0 THEN v
  ELSE IF kk > 0 THEN ExpInt(RDiv(v * 2718, 1000), kk - 1)
  ELSE ExpInt(RDiv(v * 368, 1000), kk + 1)

\* exp(z/1000)*1000
Exp(z) == ExpInt(ExpFrac(z % 1000), z \div 1000)

saturation_specific_humidity(Tc) ==
  LET TK    == Tc + 27315                      \* line 24, hundredths of a kelvin
      invT  == RDiv(100000000, TK)             \* 1/T, in 10^-6 K^-1
      invT0 == RDiv(100000000, T0ref)
      LvRv  == RDiv(Lv * 10, Rv10)             \* Lv/Rv, in kelvin
      z     == RDiv(-LvRv * (invT - invT0), 1000)   \* the exponent, thousandths
      ex    == Exp(z)
      es    == (es0 \div 1000) * ex + RDiv((es0 % 1000) * ex, 1000)  \* line 27, 1/100 Pa
  IN RDiv(ep1000 * es, (Ps \div 10))           \* line 30: ep*es/Ps, in 10^-6


(***************************************************************************)
(* The grid (lines 76-83), supplied by the caller.  dt is 1/dtInv; a grid  *)
(* is valid when dtInv = nt.  Cells are the n equal cells of [0,1].        *)
(***************************************************************************)
MkGrid(n, nt, dur, dtInv) ==
  [ n |-> n, nt |-> nt, dur |-> dur, dtInv |-> dtInv,
    dx |-> RDiv(Unit, n),
    x  |-> [j \in 1..n |-> RDiv((2 * j - 1) * Unit, 2 * n)],
    xb |-> [j \in 1..(n - 1) |-> RDiv(j * Unit, n)] ]

\* a valid grid of two cells reaching towards both poles, x = [-0.9, 0.9]:
\* in the southern cell the seasonal formula of line 103 goes negative
PolarGrid(nt, dur) ==
  [ n |-> 2, nt |-> nt, dur |-> dur, dtInv |-> nt,
    dx |-> 180, x |-> <<-90, 90>>, xb |-> <<0>> ]

Grids ==
  { MkGrid(n, nt, dur, dtInv) :
      n \in 1..MaxN, nt \in 1..MaxNt, dur \in 1..MaxDur, dtInv \in 1..MaxNt }
  \cup { PolarGrid(nt, dur) : nt \in 1..MaxNt, dur \in 1..MaxDur }

\* the invariant of the grid that model() relies on: dt*nt = 1
GridValid(g) ==
  /\ g.n >= 1 /\ g.nt >= 1 /\ g.dur >= 1
  /\ g.dtInv = g.nt
  /\ DOMAIN g.x = 1..g.n
  /\ DOMAIN g.xb = 1..(g.n - 1)

\* initial temperatures a caller may pass, per cell
TInitVals == {-10, 0, 1000}
FVals == {0}
Toggles == {"on", "off"}

\* dt*v and v/cg, with dt = 1/dtInv and cg = cgNum/cgDen
TimesDt(g, v) == RDiv(v, g.dtInv)
OverCg(v) == RDiv(v * cgDen, cgNum)

(***************************************************************************)
(* Diffusion operator (lines 89-94).                                       *)
(***************************************************************************)
lam(g) ==
  [j \in 1..(g.n - 1) |->
     Mul(Quo(D, Mul(g.dx, g.dx)), Unit - Mul(g.xb[j], g.xb[j]))]

L1(g) == [j \in 1..g.n |-> IF j = 1 THEN 0 ELSE -lam(g)[j - 1]]
L2(g) == [j \in 1..g.n |-> IF j = g.n THEN 0 ELSE -lam(g)[j]]
\* mutant: the diagonal with the wrong sign
L3SignFlipped(g) == [j \in 1..g.n |-> L1(g)[j] + L2(g)[j]]

L3(g) == [j \in 1..g.n |-> -L1(g)[j] - L2(g)[j]]

DiffOp(g) ==
  [r \in 1..g.n |-> [c \in 1..g.n |->
     - (IF c = r THEN L3(g)[r] ELSE 0)
     - (IF c = r + 1 THEN L2(g)[r] ELSE 0)
     - (IF c = r - 1 THEN L1(g)[r] ELSE 0)]]

(***************************************************************************)
(* Definitions for the implicit scheme on Tg (lines 96-100, 109-111).      *)
(***************************************************************************)
cg_tau == ((cgNum * tauInv) \div cgDen) * Unit
dt_tau(g) == RDiv(tauInv * Unit, g.dtInv)
\* dc = dt_tau*cg_tau, in whole units (it exceeds 32 bits in hundredths)
dc(g) == RDiv(tauInv * (cg_tau \div Unit), g.dtInv)
\* dt*diffop/cg
DtDiffopCg(g, dop) ==
  [r \in 1..g.n |-> [c \in 1..g.n |-> OverCg(TimesDt(g, dop[r][c]))]]
Kappa(g, dop) ==
  [r \in 1..g.n |-> [c \in 1..g.n |->
     (IF r = c THEN Unit + dt_tau(g) ELSE 0) - DtDiffopCg(g, dop)[r][c]]]

M == B + cg_tau
aw(g) == [j \in 1..g.n |-> a0 - Mul(a2, Mul(g.x[j], g.x[j]))]
kLf == Mul(k, Lf)

(***************************************************************************)
(* Insolation (lines 102-106).                                             *)
(***************************************************************************)
\* cos(kk*pi/d)*Unit for 0 <= 2*kk <= d: the first quadrant
CosQuadrant(kk, d) ==
  IF kk = 0 THEN Unit
  ELSE IF 2 * kk = d THEN 0
  ELSE IF 3 * kk = d THEN 50
  ELSE IF 4 * kk = d THEN 71
  ELSE IF 6 * kk = d THEN 87
  ELSE IF d = 5 /\ kk = 1 THEN 81
  ELSE IF d = 5 /\ kk = 2 THEN 31
  ELSE IF d = 7 /\ kk = 1 THEN 90
  ELSE IF d = 7 /\ kk = 2 THEN 62
  ELSE IF d = 7 /\ kk = 3 THEN 22
  ELSE IF d = 8 /\ kk = 1 THEN 92
  ELSE 38

\* cos(kk*pi/d)*Unit
CosPi(kk, d) ==
  LET k1 == kk % (2 * d)
      k2 == IF k1 > d THEN 2 * d - k1 ELSE k1
  IN IF 2 * k2 > d THEN -CosQuadrant(d - k2, d) ELSE CosQuadrant(k2, d)

\* len(ty), ty = np.arange(dt/2, 1+dt/2, dt): ceil(1/dt)
LenTy(g) == g.dtInv
\* cos(2*pi*ty[i]), ty[i] = dt/2 + (i-1)*dt
CosTy(g, i) == CosPi(2 * i - 1, g.dtInv)

\* line 103 broadcasts an (nt,n) array with a (len(ty),n) one
Broadcasts(g) == LenTy(g) = g.nt \/ LenTy(g) = 1

\* mutant: negative insolation is kept
ClipNothing(v) == v

\* line 106: np.where(S<0,0,S)
Clip(v) == IF v < 0 THEN 0 ELSE v

Insolation(g) ==
  [i \in 1..g.nt |-> [j \in 1..g.n |->
     Clip((S0 - Mul(S2, Mul(g.x[j], g.x[j])))
          - Mul(Mul(S1, CosTy(g, IF LenTy(g) = 1 THEN 1 ELSE i)), g.x[j]))]]

\* mutant: the output arrays allocated as (nt,n)
ZerosTransposed(n, nt) == [j \in 1..nt |-> [i \in 1..n |-> 0]]
\* mutant: np.linspace(0,1,nt,endpoint=False)
LinspaceOpen(nt) == [i \in 1..nt |-> RDiv((i - 1) * Unit, nt)]

\* np.zeros((n,nt)) and np.linspace(0,1,nt) (lines 113-117)
Zeros(n, nt) == [j \in 1..n |-> [i \in 1..nt |-> 0]]
Linspace(nt) ==
  [i \in 1..nt |-> IF nt = 1 THEN 0
                   ELSE IF i = nt THEN Unit
                   ELSE RDiv((i - 1) * Unit, nt - 1)]

(***************************************************************************)
(* State.  The caller's objects: grid, T_caller (the array passed as T),   *)
(* F and the two toggles.  The locals of model(): pc (position), years, i, *)
(* the arrays built before the loop (diffop, kappa, S), the model state    *)
(* T, E, Tg, the per-substep locals alpha, C, T0, and the outputs.         *)
(* T_alias / Tg_alias say whether the local name still refers to the       *)
(* caller's array object (line 120 binds Tg to it, the parameter T is it). *)
(* call counts the calls the caller has made with the same arguments,      *)
(* ret1 is what the first call returned, T_passed the array's contents     *)
(* when the caller first passed it, writes the number of times each        *)
(* output column has been assigned.                                        *)
(***************************************************************************)
VARIABLES grid, T_caller, F, sea_ice_albedo, sea_ice_thermodynamics,
          pc, call, years, i, diffop, kappa, S,
          T, E, Tg, T_alias, Tg_alias, alpha, C, T0,
          Es_output, Ts_output, ASR_output, Hi_output, time,
          ret1, T_passed, writes

inputs == <<grid, F, sea_ice_albedo, sea_ice_thermodynamics>>
built == <<diffop, kappa, S>>
state == <<T, E, Tg, T_alias, Tg_alias, alpha, C, T0>>
outputs == <<Es_output, Ts_output, ASR_output, writes>>
returned == <<Hi_output, time>>
vars == <<inputs, T_caller, pc, call, years, i, built, state, outputs,
          returned, ret1, T_passed>>

None == <<>>

Init ==
  /\ grid \in Grids
  /\ T_caller \in [1..grid.n -> TInitVals]
  /\ T_passed = T_caller
  /\ F \in FVals
  /\ sea_ice_albedo \in Toggles
  /\ sea_ice_thermodynamics \in Toggles
  /\ pc = "start"
  /\ call = 1
  /\ years = 0 /\ i = 0
  /\ diffop = None /\ kappa = None /\ S = None
  /\ T = None /\ E = None /\ Tg = None
  /\ T_alias = FALSE /\ Tg_alias = FALSE
  /\ alpha = None /\ C = None /\ T0 = None
  /\ Es_output = None /\ Ts_output = None /\ ASR_output = None
  /\ Hi_output = None /\ time = None
  /\ ret1 = None
  /\ writes = None

(***************************************************************************)
(* Lines 76-121: everything before the year loop.  The only statement that *)
(* can raise for the grids above is the broadcast of line 103.             *)
(***************************************************************************)
SetupRaises ==
  /\ pc = "start"
  /\ ~Broadcasts(grid)
  /\ pc' = "error"
  /\ diffop' = DiffOp(grid)
  /\ kappa' = Kappa(grid, DiffOp(grid))
  /\ UNCHANGED <<inputs, T_caller, call, years, i, S, state, outputs,
                 returned, ret1, T_passed>>

Setup ==
  /\ pc = "start"
  /\ Broadcasts(grid)
  /\ diffop' = DiffOp(grid)
  /\ kappa' = Kappa(grid, DiffOp(grid))
  /\ S' = Insolation(grid)
  /\ Es_output' = Zeros(grid.n, grid.nt)
  /\ Ts_output' = Zeros(grid.n, grid.nt)
  /\ ASR_output' = Zeros(grid.n, grid.nt)
  /\ writes' = [c \in 1..grid.nt |-> 0]
  /\ time' = Linspace(grid.nt)
  /\ T' = T_caller /\ T_alias' = TRUE          \* the parameter T
  /\ Tg' = T_caller /\ Tg_alias' = TRUE        \* line 120: Tg = T
  /\ E' = [j \in 1..grid.n |-> Mul(cw, T_caller[j])]   \* line 121
  /\ years' = 0 /\ i' = 0
  /\ pc' = "loop"                              \* dur >= 1 and nt >= 1
  /\ UNCHANGED <<inputs, T_caller, call, alpha, C, T0, Hi_output, ret1,
                 T_passed>>

(***************************************************************************)
(* One substep: the body of the inner loop (lines 129-165).                *)
(***************************************************************************)
\* mutant: the toggle is ignored and the feedback always applied
AlphaAlwaysFeedback(g, albedo, Ev) ==
  [j \in 1..g.n |->
     (a0 - Mul(a2, Mul(g.x[j], g.x[j]))) * Mask(Ev[j] > 0) + ai * Mask(Ev[j] < 0)]

\* lines 130-133 with the ice co-albedo of line 65 set to aiv.
\* aw*(E>0) + ai*(E<0): the masks multiply.
AlphaAi(aiv, g, albedo, Ev) ==
  IF albedo = "on"
  THEN [j \in 1..g.n |-> aw(g)[j] * Mask(Ev[j] > 0) + aiv * Mask(Ev[j] < 0)]
  ELSE aw(g)

\* lines 130-133
Alpha(g, albedo, Ev) == AlphaAi(ai, g, albedo, Ev)

\* alpha*S[i,:] (lines 135 and 147)
Absorbed(g, alphav, Srow) == [j \in 1..g.n |-> Mul(Srow[j], alphav[j])]

\* line 135
Csource(g, alphav, Srow, Tgv, Fv) ==
  [j \in 1..g.n |-> Absorbed(g, alphav, Srow)[j] + Mul(cg_tau, Tgv[j]) - A + Fv]

\* M - kLf/E for E # 0
Denom(e) == M - Quo(kLf, e)

\* num/(M - kLf/E).  At E = +-0.0 numpy gives kLf/E = +-inf, the
\* denominator is -+inf and the quotient is a zero.
OverDenom(num, e) == IF e = 0 THEN 0 ELSE Quo(num, Denom(e))

\* lines 138-141
T0estimate(g, thermo, Cv, Ev) ==
  IF thermo = "on"
  THEN [j \in 1..g.n |-> OverDenom(Cv[j], Ev[j])]
  ELSE [j \in 1..g.n |-> Quo(Ev[j], cw)]

\* mutant: every year is recorded
FinalYearAlways(g, yrs) == TRUE

\* line 144
FinalYear(g, yrs) == yrs = g.dur - 1

\* out[:,col] = v
SetColumn(out, col, v) == [j \in DOMAIN out |-> [out[j] EXCEPT ![col] = v[j]]]

\* mutant: the mask (T0<0) is missing
TupdateNoFreezingMask(g, Ev, T0v) ==
  [j \in 1..g.n |-> Quo(Ev[j], cw) * Mask(Ev[j] >= 0) + T0v[j] * Mask(Ev[j] < 0)]

\* line 149
Tupdate(g, Ev, T0v) ==
  [j \in 1..g.n |-> Quo(Ev[j], cw) * Mask(Ev[j] >= 0)
                    + T0v[j] * Mask(Ev[j] < 0) * Mask(T0v[j] < 0)]

\* line 152
Eupdate(g, Ev, Cv, Tv) ==
  [j \in 1..g.n |-> Ev[j] + TimesDt(g, Cv[j] - Mul(M, Tv[j]) + Fb)]

\* mutant: the assignment written in place, "name[:] = expression"
RebindInPlace(callerArray, aliased, newValue) ==
  IF aliased THEN newValue ELSE callerArray

\* An assignment "name = expression" rebinds the local name to a new array:
\* the array the name referred to, the caller's when aliased, keeps its
\* contents.  The value is the caller's array after the assignment.
Rebind(callerArray, aliased, newValue) == callerArray

\* the sum of f over 1..m
RECURSIVE Sum(_, _)
Sum(f, m) == IF m = 0 THEN 0 ELSE f[m] + Sum(f, m - 1)

\* lines 157-158: rhs1 = matmul(dt*diffop/cg, Lv*q/cp), q = RH*qs(Tg)
Rhs1(g, dop, Tgv) ==
  LET q   == [j \in 1..g.n |->
                RDiv(RH * saturation_specific_humidity(Tgv[j]), Unit)]
      mse == [j \in 1..g.n |-> RDiv(q[j] * (Lv \div 1000), cp10)]
      m   == DtDiffopCg(g, dop)
  IN [r \in 1..g.n |-> Sum([c \in 1..g.n |-> Mul(mse[c], m[r][c])], g.n)]

(***************************************************************************)
(* np.linalg.solve: LU elimination and back substitution.  The matrices    *)
(* of the scheme are diagonally dominant, so partial pivoting keeps the    *)
(* rows in place.                                                          *)
(***************************************************************************)
RECURSIVE Eliminate(_, _, _, _)
Eliminate(Am, b, kk, n) ==
  IF kk >= n THEN <<Am, b>>
  ELSE LET mult == [r \in 1..n |-> IF r > kk THEN Quo(Am[r][kk], Am[kk][kk]) ELSE 0]
           A2 == [r \in 1..n |-> [c \in 1..n |->
                    IF r > kk THEN Am[r][c] - Mul(Am[kk][c], mult[r]) ELSE Am[r][c]]]
           b2 == [r \in 1..n |-> IF r > kk THEN b[r] - Mul(b[kk], mult[r]) ELSE b[r]]
       IN Eliminate(A2, b2, kk + 1, n)

RECURSIVE BackSubstitute(_, _, _, _, _)
BackSubstitute(U, b, r, n, xs) ==
  IF r = 0 THEN xs
  ELSE LET above == Sum([c \in 1..n |-> IF c > r THEN Mul(U[r][c], xs[c]) ELSE 0], n)
           xr == Quo(b[r] - above, U[r][r])
       IN BackSubstitute(U, b, r - 1, n, [xs EXCEPT ![r] = xr])

Solve(Am, b, n) ==
  LET ub == Eliminate(Am, b, 1, n)
  IN BackSubstitute(ub[1], ub[2], n, n, [j \in 1..n |-> 0])

\* dc/(M - kLf/E), dc in whole units, the result in hundredths
DcOverDenom(g, e) ==
  IF e = 0 THEN 0
  ELSE LET den == Denom(e)
           aa == IF den < 0 THEN -dc(g) ELSE dc(g)
           bb == Abs(den)
           r1 == aa % bb
       IN ((aa \div bb) * Unit + (r1 * Unit) \div bb) * Unit
          + RDiv(((r1 * Unit) % bb) * Unit, bb)

\* mutant: the relaxation term of the disabled branch uses T0 for E/cw
TgUpdateRelaxToT0(g, thermo, kap, dop, Ev, T0v, Tgv, Srow, Fv) ==
  Solve(kap,
        [j \in 1..g.n |->
           Tgv[j] + Sum([c \in 1..g.n |->
                           Mul(RDiv(RDiv(RH * saturation_specific_humidity(Tgv[c]), Unit)
                                    * (Lv \div 1000), cp10),
                               OverCg(TimesDt(g, dop[j][c])))], g.n)
           + Mul(dt_tau(g), T0v[j])],
        g.n)

\* lines 161-162: the masks (E>=0) and (T0<0)*(E<0) of the implicit step
WaterMask(e) == Mask(e >= 0)
IceMask(t0, e) == Mask(t0 < 0) * Mask(e < 0)

\* lines 160-165 with the ice co-albedo of line 65 set to aiv
TgUpdateAi(aiv, g, thermo, kap, dop, Ev, T0v, Tgv, Srow, Fv) ==
  LET rhs1 == Rhs1(g, dop, Tgv)
      ice(j) == IceMask(T0v[j], Ev[j])
  IN IF thermo = "on"
     THEN Solve([r \in 1..g.n |-> [c \in 1..g.n |->
                   kap[r][c] - (IF r = c THEN DcOverDenom(g, Ev[r]) * ice(r) ELSE 0)]],
                [j \in 1..g.n |->
                   Tgv[j] + rhs1[j]
                   + Mul(dt_tau(g),
                         Quo(Ev[j], cw) * WaterMask(Ev[j])
                         + OverDenom(Mul(Srow[j], aiv) - A + Fv, Ev[j]) * ice(j))],
                g.n)
     ELSE Solve(kap,
                [j \in 1..g.n |-> Tgv[j] + rhs1[j] + Mul(dt_tau(g), Quo(Ev[j], cw))],
                g.n)

\* lines 160-165: the implicit Euler step on Tg
TgUpdate(g, thermo, kap, dop, Ev, T0v, Tgv, Srow, Fv) ==
  TgUpdateAi(ai, g, thermo, kap, dop, Ev, T0v, Tgv, Srow, Fv)

\* the enthalpies and ghost-layer temperatures the model represents
InRange(Ev, Tgv) ==
  \A j \in DOMAIN Ev : /\ Abs(Ev[j]) <= Mul(cw, MaxTemp)
                       /\ Abs(Tgv[j]) <= MaxTemp

Substep ==
  /\ pc = "loop"
  /\ LET col    == i + 1
         alphaN == Alpha(grid, sea_ice_albedo, E)
         CN     == Csource(grid, alphaN, S[col], Tg, F)
         T0N    == T0estimate(grid, sea_ice_thermodynamics, CN, E)
         rec    == FinalYear(grid, years)
         TN     == Tupdate(grid, E, T0N)
         EN     == Eupdate(grid, E, CN, TN)
         TgN    == TgUpdate(grid, sea_ice_thermodynamics, kappa, diffop,
                            EN, T0N, Tg, S[col], F)
         last   == i + 1 = grid.nt
     IN /\ InRange(E, Tg)
        /\ InRange(EN, Tg)
        /\ alpha' = alphaN
        /\ C' = CN
        /\ T0' = T0N
        /\ Es_output' = IF rec THEN SetColumn(Es_output, col, E) ELSE Es_output
        /\ Ts_output' = IF rec THEN SetColumn(Ts_output, col, T) ELSE Ts_output
        /\ ASR_output' = IF rec
                         THEN SetColumn(ASR_output, col, Absorbed(grid, alphaN, S[col]))
                         ELSE ASR_output
        /\ writes' = IF rec THEN [writes EXCEPT ![col] = @ + 1] ELSE writes
        /\ T' = TN
        /\ E' = EN
        /\ Tg' = TgN
        /\ T_caller' = Rebind(Rebind(T_caller, T_alias, TN), Tg_alias, TgN)
        /\ T_alias' = FALSE
        /\ Tg_alias' = FALSE
        /\ i' = IF last THEN 0 ELSE i + 1
        /\ years' = IF last THEN years + 1 ELSE years
        /\ pc' = IF last /\ years + 1 = grid.dur THEN "finish" ELSE "loop"
  /\ UNCHANGED <<inputs, call, built, returned, ret1, T_passed>>

(***************************************************************************)
(* Lines 167-174: the ice thickness and the return.                        *)
(***************************************************************************)
\* mutant: the mask (Es_output<0) is missing
IceThicknessNoMask(Es) ==
  [j \in DOMAIN Es |-> [c \in DOMAIN Es[j] |-> Quo(-Es[j][c], Lf)]]

\* line 167: -Es_output/Lf*(Es_output<0)
IceThickness(Es) ==
  [j \in DOMAIN Es |-> [c \in DOMAIN Es[j] |->
     Quo(-Es[j][c], Lf) * Mask(Es[j][c] < 0)]]

Returned == <<time, Es_output, Ts_output, Hi_output, ASR_output>>

Finish ==
  /\ pc = "finish"
  /\ Hi_output' = IceThickness(Es_output)
  /\ pc' = "done"
  /\ UNCHANGED <<inputs, T_caller, call, years, i, built, state, outputs,
                 time, ret1, T_passed>>

(***************************************************************************)
(* The caller calls model() again with the same argument objects.          *)
(***************************************************************************)
CallAgain ==
  /\ pc = "done"
  /\ call = 1
  /\ call' = 2
  /\ ret1' = Returned
  /\ pc' = "start"
  /\ UNCHANGED <<inputs, T_caller, years, i, built, state, outputs,
                 returned, T_passed>>

Next == SetupRaises \/ Setup \/ Substep \/ Finish \/ CallAgain

Spec == Init /\ [][Next]_vars

(***************************************************************************)
(* The same program over wider grids (up to MaxWide cells), called with a  *)
(* spatially uniform initial temperature and a short year: the runs on     *)
(* which the shape of the n*n operators shows.                             *)
(***************************************************************************)
MaxWide == 4

WideGrids ==
  { MkGrid(n, nt, 1, dtInv) : n \in 1..MaxWide, nt \in 1..2, dtInv \in 1..2 }

InitWide ==
  /\ grid \in WideGrids
  /\ \E t \in TInitVals : T_caller = [j \in 1..grid.n |-> t]
  /\ T_passed = T_caller
  /\ F \in FVals
  /\ sea_ice_albedo \in Toggles
  /\ sea_ice_thermodynamics \in Toggles
  /\ pc = "start"
  /\ call = 1
  /\ years = 0 /\ i = 0
  /\ diffop = None /\ kappa = None /\ S = None
  /\ T = None /\ E = None /\ Tg = None
  /\ T_alias = FALSE /\ Tg_alias = FALSE
  /\ alpha = None /\ C = None /\ T0 = None
  /\ Es_output = None /\ Ts_output = None /\ ASR_output = None
  /\ Hi_output = None /\ time = None
  /\ ret1 = None
  /\ writes = None

SpecWide == InitWide /\ [][Next]_vars

(***************************************************************************)
(* Lines 129-149 of the first substep at the resolution of the singular    *)
(* boundary.  E = kLf/M is about 0.0019384, far below one hundredth, so    *)
(* here E, T and Tg are held in units of 1e-8 while C, M, the quotient     *)
(* kLf/E and T0 stay in hundredths.  As in double arithmetic, the rounded  *)
(* quotient kLf/E equals M for an enthalpy next to the boundary (for the   *)
(* doubles, model(grid, np.array([0.0002486724313327591])) has             *)
(* M - kLf/E == 0.0 in its first substep), and the values are IEEE values: *)
(* a finite number, an infinity or a NaN.                                  *)
(***************************************************************************)
FineSpan == 30
FineUnit == Unit * Unit * Unit * Unit
kLfFine == (kLf \div Unit) * FineUnit

Finite(v) == [kind |-> "finite", val |-> v]
Inf(sign) == [kind |-> "inf", val |-> sign]
NaN == [kind |-> "nan", val |-> 0]

\* M - kLf/E, in hundredths, for E # 0 in units of 1e-8
FineDenom(e) == M - Quo(kLfFine, e)

\* the enthalpy whose rounded quotient kLf/E is M
SingularE ==
  LET near == kLfFine \div (M \div Unit)
  IN CHOOSE e \in (near - 200)..(near + 200) : FineDenom(e) = 0

\* line 139: C/(M - kLf/E).  kLf/(+-0.0) is an infinity and C over it a
\* zero; C over a zero denominator is an infinity, or a NaN when C is 0.
T0Fine(Cv, e) ==
  IF e = 0 THEN Finite(0)
  ELSE IF FineDenom(e) = 0
       THEN (IF Cv > 0 THEN Inf(1) ELSE IF Cv < 0 THEN Inf(-1) ELSE NaN)
       ELSE Finite(Quo(Cv, FineDenom(e)))

\* x*m for a boolean mask m: IEEE gives NaN for an infinity times False
TimesMask(x, m) ==
  IF x.kind = "finite" THEN Finite(x.val * m)
  ELSE IF x.kind = "inf" /\ m = 1 THEN x
  ELSE NaN

\* x < 0 as numpy compares: False for a NaN
IsNegative(x) == x.kind # "nan" /\ x.val < 0

\* line 149: E/cw*(E>=0) + T0*(E<0)*(T0<0), in units of 1e-8
TupdateFine(e, t0) ==
  LET ice == TimesMask(TimesMask(t0, Mask(e < 0)), Mask(IsNegative(t0)))
  IN IF ice.kind = "finite"
     THEN Finite(Quo(e, cw) * Mask(e >= 0) + ice.val * (FineUnit \div Unit))
     ELSE ice

\* line 135 with Tg in units of 1e-8
CsourceFine(g, alphav, Srow, Tgv, Fv) ==
  [j \in 1..g.n |->
     Absorbed(g, alphav, Srow)[j]
     + RDiv((cg_tau \div Unit) * Tgv[j], FineUnit \div Unit) - A + Fv]

FineEVals ==
  LET near == (SingularE - FineSpan)..(SingularE + FineSpan)
  IN near \cup { -e : e \in near } \cup {0}

\* the state when the loops are entered (lines 76-121) on a one-cell grid
InitFine ==
  /\ grid \in { MkGrid(1, nt, 1, nt) : nt \in 1..2 }
  /\ F \in FVals
  /\ sea_ice_albedo \in Toggles
  /\ sea_ice_thermodynamics = "on"
  /\ E \in [1..grid.n -> FineEVals]
  /\ T = [j \in 1..grid.n |-> Quo(E[j], cw)]
  /\ Tg = T /\ T_caller = T /\ T_passed = T
  /\ T_alias = TRUE /\ Tg_alias = TRUE
  /\ pc = "loop"
  /\ call = 1
  /\ years = 0 /\ i = 0
  /\ diffop = DiffOp(grid) /\ kappa = Kappa(grid, DiffOp(grid))
  /\ S = Insolation(grid)
  /\ alpha = None /\ C = None /\ T0 = None
  /\ Es_output = Zeros(grid.n, grid.nt)
  /\ Ts_output = Zeros(grid.n, grid.nt)
  /\ ASR_output = Zeros(grid.n, grid.nt)
  /\ writes = [c \in 1..grid.nt |-> 0]
  /\ Hi_output = None /\ time = Linspace(grid.nt)
  /\ ret1 = None

\* lines 129-149 of the first substep
FineStep ==
  /\ pc = "loop"
  /\ alpha' = Alpha(grid, sea_ice_albedo, E)
  /\ C' = CsourceFine(grid, alpha', S[1], Tg, F)
  /\ T0' = [j \in 1..grid.n |-> T0Fine(C'[j], E[j])]
  /\ T' = [j \in 1..grid.n |-> TupdateFine(E[j], T0'[j])]
  /\ T_alias' = FALSE
  /\ pc' = "updated"
  /\ UNCHANGED <<inputs, T_caller, call, years, i, built, E, Tg, Tg_alias,
                 outputs, returned, ret1, T_passed>>

SpecFine == InitFine /\ [][FineStep]_vars

(***************************************************************************)
(* The same program called with open water everywhere, just above the      *)
(* freezing point or warm: the runs in which a cell freezes over.          *)
(***************************************************************************)
FreezeTVals == {1, 1000}

InitFreeze ==
  /\ grid \in Grids
  /\ T_caller \in [1..grid.n -> FreezeTVals]
  /\ T_passed = T_caller
  /\ F \in FVals
  /\ sea_ice_albedo \in Toggles
  /\ sea_ice_thermodynamics \in Toggles
  /\ pc = "start"
  /\ call = 1
  /\ years = 0 /\ i = 0
  /\ diffop = None /\ kappa = None /\ S = None
  /\ T = None /\ E = None /\ Tg = None
  /\ T_alias = FALSE /\ Tg_alias = FALSE
  /\ alpha = None /\ C = None /\ T0 = None
  /\ Es_output = None /\ Ts_output = None /\ ASR_output = None
  /\ Hi_output = None /\ time = None
  /\ ret1 = None
  /\ writes = None

SpecFreeze == InitFreeze /\ [][Next]_vars

(***************************************************************************)
(* Properties.                                                             *)
(***************************************************************************)
Cells == 1..grid.n
Columns == 1..grid.nt
Completed == pc = "done"

C2_OpenWaterAbsorbed ==
  (Completed /\ sea_ice_albedo = "off") =>
    \A j \in Cells : \A c \in Columns :
      ASR_output[j][c] = Mul(S[c][j], a0 - Mul(a2, Mul(grid.x[j], grid.x[j])))

C2_Witness ==
  /\ Completed /\ sea_ice_albedo = "off"
  /\ \E j \in Cells : \E c \in Columns : Es_output[j][c] < 0 /\ ASR_output[j][c] > 0
  /\ \E j \in Cells : \E c \in Columns : Es_output[j][c] > 0 /\ ASR_output[j][c] > 0
  /\ \E j \in Cells : \E c \in Columns : Es_output[j][c] = 0 /\ ASR_output[j][c] > 0

\* C3: a substep before the final year leaves the output arrays alone; a
\* substep i of the final year writes column i only, with the E and T it
\* starts from and the co-albedo it computes times insolation[i]; nothing
\* is written once the loop has ended.
C3_RecordsPreUpdate ==
  [][ /\ (pc = "loop" /\ years < grid.dur - 1) =>
           UNCHANGED <<Es_output, Ts_output, ASR_output>>
      /\ (pc = "loop" /\ years = grid.dur - 1) =>
           \A j \in Cells : \A c \in Columns :
             IF c = i + 1
             THEN /\ Es_output'[j][c] = E[j]
                  /\ Ts_output'[j][c] = T[j]
                  /\ ASR_output'[j][c] = Mul(S[c][j], alpha'[j])
             ELSE /\ Es_output'[j][c] = Es_output[j][c]
                  /\ Ts_output'[j][c] = Ts_output[j][c]
                  /\ ASR_output'[j][c] = ASR_output[j][c]
      /\ (pc = "loop" /\ years = 0 /\ i = 0) => T = T_passed
      /\ pc = "finish" => UNCHANGED <<Es_output, Ts_output, ASR_output>>
    ]_vars

\* a completed run of two years whose first year and whose final state
\* differ from what was recorded
C3_Witness ==
  /\ Completed /\ grid.dur >= 2 /\ grid.nt >= 2
  /\ \E j \in Cells : /\ Es_output[j][grid.nt] # E[j]
                      /\ Ts_output[j][grid.nt] # T[j]
                      /\ Ts_output[j][1] # T_passed[j]
                      /\ Es_output[j][1] # Mul(cw, T_passed[j])

\* C4: a call leaves the caller's temperature array as it was passed, and
\* a second call with the same arguments returns what the first returned.
C4_Repeatable ==
  /\ T_caller = T_passed
  /\ (call = 2 /\ Completed) => Returned = ret1

C4_Witness ==
  /\ call = 2 /\ Completed
  /\ \E j \in Cells : T[j] # T_caller[j] /\ Tg[j] # T_caller[j]
  /\ \E j \in Cells : \E c \in Columns : Es_output[j][c] # 0

\* C5: for a valid grid the four returned fields have shape (n, nt) and
\* every column has been written exactly once.
Shape(out, n, nt) ==
  /\ DOMAIN out = 1..n
  /\ \A j \in 1..n : DOMAIN out[j] = 1..nt

C5_Shapes ==
  /\ (pc \in {"loop", "finish", "done"} /\ GridValid(grid)) =>
       /\ Shape(Es_output, grid.n, grid.nt)
       /\ Shape(Ts_output, grid.n, grid.nt)
       /\ Shape(ASR_output, grid.n, grid.nt)
       /\ \A c \in Columns : writes[c] <= 1
  /\ (Completed /\ GridValid(grid)) =>
       /\ Shape(Hi_output, grid.n, grid.nt)
       /\ \A c \in Columns : writes[c] = 1

C5_Witness ==
  /\ Completed /\ GridValid(grid)
  /\ grid.n = 2 /\ grid.nt = 3 /\ grid.dur = 2
  /\ \A c \in Columns : writes[c] = 1

\* C6 as stated: for every valid grid, nt = 1 included, the time axis has
\* length nt, first element 0 and last element 1.
C6_SpansUnitInterval ==
  (Completed /\ GridValid(grid)) =>
    /\ DOMAIN time = 1..grid.nt
    /\ time[1] = 0
    /\ time[grid.nt] = Unit

\* C6 amended: for every valid grid the time axis has length nt and first
\* element 0; its last element is 1 when nt >= 2, and for nt = 1 its only
\* element is 0.
C6_TimeAxis ==
  (Completed /\ GridValid(grid)) =>
    /\ DOMAIN time = 1..grid.nt
    /\ time[1] = 0
    /\ grid.nt >= 2 => time[grid.nt] = Unit
    /\ \A c \in 1..(grid.nt - 1) : time[c] < time[c + 1]

C6_Witness ==
  /\ Completed /\ GridValid(grid)
  /\ grid.nt = 1 /\ time = <<0>>

\* C7: no grid that violates dt*nt = 1 leads to a completed run that
\* returns output arrays.
C7_InvalidGridRejected ==
  Completed => GridValid(grid)

\* C8: with the albedo feedback on, the co-albedo a substep computes is the
\* open-water value in every cell whose enthalpy is >= 0 and ai in every
\* cell whose enthalpy is < 0.
C8_CoAlbedoSplit ==
  [][ (pc = "loop" /\ sea_ice_albedo = "on") =>
        \A j \in Cells :
          alpha'[j] = IF E[j] >= 0
                      THEN a0 - Mul(a2, Mul(grid.x[j], grid.x[j]))
                      ELSE ai
    ]_vars

SolveTolerance(r) ==
  kappa[r][r] \div (2 * Unit) + grid.n
  + Sum([c \in Cells |-> IF c = r THEN 0 ELSE Mul(Abs(kappa[r][c]), MaxTemp)], grid.n)

C10_NoThermodynamics ==
  [][ (pc = "loop" /\ sea_ice_thermodynamics = "off") =>
        \A j \in Cells :
          /\ T'[j] = Quo(E[j], cw)
          /\ E[j] < 0 => T'[j] <= 0
          /\ Abs(Sum([c \in Cells |-> Mul(kappa[j][c], Tg'[c])], grid.n)
                 - (Tg[j] + Rhs1(grid, diffop, Tg)[j]
                    + Mul(dt_tau(grid), Quo(E'[j], cw))))
             <= SolveTolerance(j)
    ]_vars

C10_Witness ==
  /\ pc = "loop" /\ T0 # None
  /\ sea_ice_thermodynamics = "off"
  /\ \E j \in Cells : alpha[j] = ai /\ T[j] < 0 /\ E[j] > 0
  /\ grid.n >= 2

\* C11: the insolation field is built before the loop with every entry
\* >= 0, no substep changes it, the substep at position i of every year
\* takes its shortwave term from row i, and every recorded
\* absorbed-shortwave value is >= 0.
C11_Insolation ==
  [][ /\ S' # None =>
           /\ DOMAIN S' = 1..grid.nt
           /\ \A c \in Columns : \A j \in Cells : S'[c][j] >= 0
      /\ pc \in {"loop", "finish", "done"} /\ pc' # "start" => S' = S
      /\ pc = "loop" =>
           \A j \in Cells :
             C'[j] = Mul(S[i + 1][j], alpha'[j]) + Mul(cg_tau, Tg[j]) - A + F
      /\ ASR_output' # None =>
           \A j \in Cells : \A c \in Columns : ASR_output'[j][c] >= 0
    ]_vars

\* a completed run of two years over a field with an entry clipped to 0
\* and rows that differ, with shortwave absorbed
C11_Witness ==
  /\ Completed /\ grid.dur >= 2 /\ grid.nt >= 2
  /\ \E c \in Columns : \E j \in Cells : S[c][j] = 0
  /\ \E c \in Columns : S[c] # S[1]
  /\ \E j \in Cells : \E c \in Columns : ASR_output[j][c] > 0

\* vectors over the cells with entries in {-1, 0, 1}
TestVectors == [Cells -> {-1, 0, 1}]
Uniform(v) == \A j \in Cells : v[j] = v[1]
\* v^T * m * v
QuadForm(m, v) ==
  Sum([j \in Cells |->
         v[j] * Sum([c \in Cells |-> m[j][c] * v[c]], grid.n)], grid.n)
Tridiagonal(m) ==
  \A r \in Cells : \A c \in Cells : (c > r + 1 \/ c < r - 1) => m[r][c] = 0
Symmetric(m) == \A r \in Cells : \A c \in Cells : m[r][c] = m[c][r]
IsSquare(m) == DOMAIN m = Cells /\ \A r \in Cells : DOMAIN m[r] = Cells

\* C12 as stated (violated): the operator is n*n, tridiagonal, symmetric
\* and negative definite, v^T*diffop*v < 0 for every non-zero v, and no
\* substep changes it.
C12_NegativeDefinite ==
  [][ /\ diffop' # None =>
           /\ IsSquare(diffop') /\ Tridiagonal(diffop') /\ Symmetric(diffop')
           /\ \A v \in TestVectors :
                (\E j \in Cells : v[j] # 0) => QuadForm(diffop', v) < 0
      /\ pc = "loop" => diffop' = diffop
    ]_vars

\* C12, amended: the operator is n*n, tridiagonal, symmetric and negative
\* semi-definite, v^T*diffop*v <= 0 for every v, with value 0 for every
\* spatially uniform v, and no substep changes it.
C12_NegativeSemiDefinite ==
  [][ /\ diffop' # None =>
           /\ IsSquare(diffop') /\ Tridiagonal(diffop') /\ Symmetric(diffop')
           /\ \A v \in TestVectors :
                /\ QuadForm(diffop', v) <= 0
                /\ Uniform(v) => QuadForm(diffop', v) = 0
      /\ pc = "loop" => diffop' = diffop
    ]_vars

\* a completed run on at least three cells: entries off the three central
\* diagonals exist, neighbours are coupled, and the quadratic form takes
\* both a negative value and, on a uniform non-zero vector, the value 0
C12_Witness ==
  /\ Completed /\ grid.n >= 3
  /\ diffop[1][3] = 0 /\ diffop[1][2] > 0 /\ diffop[2][1] > 0
  /\ \E v \in TestVectors : QuadForm(diffop, v) < 0
  /\ QuadForm(diffop, [j \in Cells |-> 1]) = 0

\* C13 (violated): with the thermodynamics enabled, on every cell with
\* E < 0 the denominator M - kLf/E exceeds M > 0, T0 is finite and has the
\* sign of C; a zero denominator, or E = 0, is met only on cells with
\* E >= 0, and there the temperature update gives E/cw.
C13_SingularBoundary ==
  [][ pc = "loop" /\ sea_ice_thermodynamics = "on" =>
        \A j \in Cells :
          /\ E[j] < 0 =>
               /\ FineDenom(E[j]) > M /\ M > 0
               /\ T0'[j].kind = "finite"
               /\ C'[j] > 0 => T0'[j].val >= 0
               /\ C'[j] < 0 => T0'[j].val <= 0
               /\ T0'[j].val > 0 => C'[j] > 0
               /\ T0'[j].val < 0 => C'[j] < 0
          /\ (E[j] = 0 \/ FineDenom(E[j]) = 0) =>
               /\ E[j] >= 0
               /\ T'[j] = Finite(Quo(E[j], cw))
    ]_vars

\* values of the ice co-albedo of line 65 for two runs that differ in it
AiVals == {ai, ai + 20}

\* what the substep taken from the current state assigns to alpha, T, E,
\* Tg and the recorded absorbed shortwave when the ice co-albedo is aiv
SubstepAi(aiv) ==
  LET alphaN == AlphaAi(aiv, grid, sea_ice_albedo, E)
      CN     == Csource(grid, alphaN, S[i + 1], Tg, F)
      T0N    == T0estimate(grid, sea_ice_thermodynamics, CN, E)
      TN     == Tupdate(grid, E, T0N)
      EN     == Eupdate(grid, E, CN, TN)
      TgN    == TgUpdateAi(aiv, grid, sea_ice_thermodynamics, kappa, diffop,
                           EN, T0N, Tg, S[i + 1], F)
  IN <<TN, EN, TgN, Absorbed(grid, alphaN, S[i + 1])>>

\* C14 (violated): with the albedo feedback disabled, a substep gives the
\* same T, E, Tg and absorbed shortwave whatever the value of the ice
\* co-albedo, for either setting of the thermodynamics toggle.
C14_IceCoAlbedoUnused ==
  [][ pc = "loop" /\ sea_ice_albedo = "off" =>
        \A aiv \in AiVals :
          SubstepAi(aiv) = <<T', E', Tg', Absorbed(grid, alpha', S[i + 1])>>
    ]_vars

\* C15 (violated): with the thermodynamics enabled, in every substep a
\* cell whose T was set from E/cw (E >= 0 at line 149) has, in the
\* implicit step, the E/cw relaxation term and no diagonal correction, and
\* a cell whose T was set from T0 (E < 0 and T0 < 0 at line 149) has the
\* ice relaxation term and the diagonal correction.  The implicit step
\* evaluates its masks on E', the enthalpy after line 152.
C15_SameBranch ==
  [][ pc = "loop" /\ sea_ice_thermodynamics = "on" =>
        /\ Tg' = TgUpdate(grid, sea_ice_thermodynamics, kappa, diffop,
                          E', T0', Tg, S[i + 1], F)
        /\ \A j \in Cells :
             /\ E[j] >= 0 =>
                  WaterMask(E'[j]) = 1 /\ IceMask(T0'[j], E'[j]) = 0
             /\ E[j] < 0 /\ T0'[j] < 0 =>
                  IceMask(T0'[j], E'[j]) = 1 /\ WaterMask(E'[j]) = 0
    ]_vars

=============================================================================
